---------------------------- MODULE Spec2Model ----------------------------
(***************************************************************************)
(* A model of upgrade_ssis_packages_unified.py: the rule tables, the       *)
(* regular-expression substitution of the two attribute categories, the    *)
(* per-file upgrade, the path walker with its backups, and main().         *)
(*                                                                         *)
(* Text is a sequence of atoms.  An atom is a piece of text that no        *)
(* pattern of the rule tables can see inside: the double quote, an         *)
(* attribute name with its "=" sign, a legacy or canonical identifier as a *)
(* rule spells it (or a letter-case variant of it), ".", a digit, or       *)
(* filler.  The text of a content is the concatenation of its atoms; the   *)
(* atoms are chosen so that a text has one spelling in atoms only, which   *)
(* makes equality of contents equality of texts.                           *)
(***************************************************************************)
EXTENDS Integers, Sequences, FiniteSets, TLC

Q == "\""

(***************************************************************************)
(* Pattern elements: a literal atom, [^"]* and (\.\d+)?                    *)
(***************************************************************************)
Lit(a) == [t |-> "lit", s |-> a]
AnyText == [t |-> "any", s |-> ""]
OptVer == [t |-> "optver", s |-> ""]
Rule(p, n) == [pat |-> p, new |-> n]

DIGITS == {"2", "3"}

EXECUTABLE_TYPE_MAPPINGS ==
  << Rule(<<Lit("{5918251B-2970-45A4-AB5F-01C3C588FE5A}")>>, <<"Microsoft.Pipeline">>),
     Rule(<<Lit("SSIS.Pipeline"), OptVer>>, <<"Microsoft.Pipeline">>),
     Rule(<<Lit("SSIS.ExecutePackageTask"), OptVer>>, <<"Microsoft.ExecutePackageTask">>),
     Rule(<<Lit("SSIS.Package"), OptVer>>, <<"Microsoft.Package">>),
     Rule(<<AnyText, Lit("Microsoft.SqlServer.ExecProcTask"), AnyText>>, <<"Microsoft.ExecuteProcess">>),
     Rule(<<AnyText, Lit("Microsoft.SqlServer.SQLTask"), AnyText>>, <<"Microsoft.ExecuteSQLTask">>),
     Rule(<<AnyText, Lit("Microsoft.SqlServer.ExpressionTask"), AnyText>>, <<"Microsoft.ExpressionTask">>),
     Rule(<<AnyText, Lit("Microsoft.SqlServer.FileSystemTask"), AnyText>>, <<"Microsoft.FileSystemTask">>),
     Rule(<<AnyText, Lit("Microsoft.SqlServer.ScriptTask"), AnyText>>, <<"Microsoft.ScriptTask">>),
     Rule(<<AnyText, Lit("Microsoft.SqlServer.TransferDatabasesTask"), AnyText>>, <<"Microsoft.TransferDatabaseTask">>),
     Rule(<<AnyText, Lit("DbMaintenanceReindexTask"), AnyText>>, <<"Microsoft.", "DbMaintenanceReindexTask">>),
     Rule(<<AnyText, Lit("DbMaintenanceShrinkTask"), AnyText>>, <<"Microsoft.", "DbMaintenanceShrinkTask">>),
     Rule(<<AnyText, Lit("DbMaintenanceTSQLExecuteTask"), AnyText>>, <<"Microsoft.", "DbMaintenanceTSQLExecuteTask">>),
     Rule(<<AnyText, Lit("DbMaintenanceUpdateStatisticsTask"), AnyText>>, <<"Microsoft.", "DbMaintenanceUpdateStatisticsTask">>) >>

COMPONENT_CLASSID_MAPPINGS ==
  << Rule(<<Lit("DTS.ManagedComponentWrapper.3")>>, <<"Microsoft.ManagedComponentWrapper">>),
     Rule(<<Lit("DTSAdapter.ExcelDestination.3")>>, <<"Microsoft.ExcelDestination">>),
     Rule(<<Lit("DTSAdapter.OLEDBDestination.3")>>, <<"Microsoft.OLEDBDestination">>),
     Rule(<<Lit("DTSAdapter.ExcelSource.3")>>, <<"Microsoft.ExcelSource">>),
     Rule(<<Lit("DTSAdapter.FlatFileSource.3")>>, <<"Microsoft.FlatFileSource">>),
     Rule(<<Lit("DTSAdapter.OLEDBSource.3")>>, <<"Microsoft.OLEDBSource">>),
     Rule(<<Lit("DTSTransform.Aggregate.3")>>, <<"Microsoft.Aggregate">>),
     Rule(<<Lit("DTSTransform.ConditionalSplit.3")>>, <<"Microsoft.ConditionalSplit">>),
     Rule(<<Lit("DTSTransform.DataConvert.3")>>, <<"Microsoft.DataConvert">>),
     Rule(<<Lit("DTSTransform.DerivedColumn.3")>>, <<"Microsoft.DerivedColumn">>),
     Rule(<<Lit("DTSTransform.Lookup.3")>>, <<"Microsoft.Lookup">>),
     Rule(<<Lit("DTSTransform.Merge.3")>>, <<"Microsoft.Merge">>),
     Rule(<<Lit("DTSTransform.MergeJoin.3")>>, <<"Microsoft.MergeJoin">>),
     Rule(<<Lit("DTSTransform.Multicast.3")>>, <<"Microsoft.Multicast">>),
     Rule(<<Lit("DTSTransform.OLEDBCommand.3")>>, <<"Microsoft.OLEDBCommand">>),
     Rule(<<Lit("DTSTransform.SCD.3")>>, <<"Microsoft.SlowlyChangingDimension">>),
     Rule(<<Lit("DTSTransform.Sort.3")>>, <<"Microsoft.Sort">>),
     Rule(<<Lit("DTSTransform.UnionAll.3")>>, <<"Microsoft.UnionAll">>) >>

GUID_COMPONENT_CLASSID_MAPPINGS ==
  << Rule(<<Lit("{5B201335-B360-485C-BB93-75C34E09B3D3}")>>, <<"Microsoft.Aggregate">>),
     Rule(<<Lit("{7F88F654-4E20-4D14-84F4-AF9C925D3087}")>>, <<"Microsoft.ConditionalSplit">>),
     Rule(<<Lit("{62B1106C-7DB8-4EC8-ADD6-4C664DFFC54A}")>>, <<"Microsoft.DataConvert">>),
     Rule(<<Lit("{49928E82-9C4E-49F0-AABE-3812B82707EC}")>>, <<"Microsoft.DerivedColumn">>),
     Rule(<<Lit("{671046B0-AA63-4C9F-90E4-C06E0B710CE3}")>>, <<"Microsoft.Lookup">>),
     Rule(<<Lit("{36E0E750-2510-4776-AA6E-17EAE84FD63E}")>>, <<"Microsoft.Merge">>),
     Rule(<<Lit("{14D43A4F-D7BD-489D-829E-6DE35750CFE4}")>>, <<"Microsoft.MergeJoin">>),
     Rule(<<Lit("{EC139FBC-694E-490B-8EA7-35690FB0F445}")>>, <<"Microsoft.Multicast">>),
     Rule(<<Lit("{93FFEC66-CBC8-4C7F-9C6A-CB1C17A7567D}")>>, <<"Microsoft.OLEDBCommand">>),
     Rule(<<Lit("{25BBB0C5-369B-4303-B3DF-D0DC741DEE58}")>>, <<"Microsoft.SlowlyChangingDimension">>),
     Rule(<<Lit("{5B1A3FF5-D366-4D75-AD1F-F19A36FCBEDB}")>>, <<"Microsoft.Sort">>),
     Rule(<<Lit("{B594E9A8-4351-4939-891C-CFE1AB93E925}")>>, <<"Microsoft.UnionAll">>),
     Rule(<<Lit("{874F7595-FB5F-40FF-96AF-FBFF8250E3EF}")>>, <<"Microsoft.ManagedComponentWrapper">>),
     Rule(<<Lit("{4ADA7EAA-136C-4215-8098-D7A7C27FC0D1}")>>, <<"Microsoft.OLEDBDestination">>),
     Rule(<<Lit("{8DA75FED-1B7C-407D-B2AD-2B24209CCCA4}")>>, <<"Microsoft.FlatFileDestination">>),
     Rule(<<Lit("{C457FD7E-CE98-4C4B-AEFE-F3AE0044F181}")>>, <<"Microsoft.RecordsetDestination">>),
     Rule(<<Lit("{165A526D-D5DE-47FF-96A6-F8274C19826B}")>>, <<"Microsoft.OLEDBSource">>),
     Rule(<<Lit("{8C084929-27D1-479F-9641-ABB7CDADF1AC}")>>, <<"Microsoft.ExcelSource">>),
     Rule(<<Lit("{D23FD76B-F51D-420F-BBCB-19CBF6AC1AB4}")>>, <<"Microsoft.FlatFileSource">>),
     Rule(<<Lit("{5918251B-2970-45A4-AB5F-01C3C588FE5A}")>>, <<"Microsoft.OLEDBSource">>),
     Rule(<<Lit("{98F16A65-E02F-4B0F-87D4-C217EA074619}")>>, <<"Microsoft.ExcelSource">>),
     Rule(<<Lit("{BD06A22E-BC69-4AF7-A69B-C44C2EF684BB}")>>, <<"Microsoft.FlatFileSource">>) >>

(***************************************************************************)
(* str.lower on the atoms of the model that hold an upper-case letter;     *)
(* every other atom is its own lower-case form.                            *)
(***************************************************************************)
LowerPairs ==
  { <<"DTS.ManagedComponentWrapper.3", "dts.managedcomponentwrapper.3">>,
    <<"DTS:CreationName=", "dts:creationname=">>,
    <<"DTS:ExecutableType=", "dts:executabletype=">>,
    <<"DTSAdapter.ExcelDestination.3", "dtsadapter.exceldestination.3">>,
    <<"DTSAdapter.ExcelSource.3", "dtsadapter.excelsource.3">>,
    <<"DTSAdapter.FlatFileSource.3", "dtsadapter.flatfilesource.3">>,
    <<"DTSAdapter.OLEDBDestination.3", "dtsadapter.oledbdestination.3">>,
    <<"DTSAdapter.OLEDBSource.3", "dtsadapter.oledbsource.3">>,
    <<"DTSTransform.Aggregate.3", "dtstransform.aggregate.3">>,
    <<"DTSTransform.ConditionalSplit.3", "dtstransform.conditionalsplit.3">>,
    <<"DTSTransform.DataConvert.3", "dtstransform.dataconvert.3">>,
    <<"DTSTransform.DerivedColumn.3", "dtstransform.derivedcolumn.3">>,
    <<"DTSTransform.Lookup.3", "dtstransform.lookup.3">>,
    <<"DTSTransform.Merge.3", "dtstransform.merge.3">>,
    <<"DTSTransform.MergeJoin.3", "dtstransform.mergejoin.3">>,
    <<"DTSTransform.Multicast.3", "dtstransform.multicast.3">>,
    <<"DTSTransform.OLEDBCommand.3", "dtstransform.oledbcommand.3">>,
    <<"DTSTransform.SCD.3", "dtstransform.scd.3">>,
    <<"DTSTransform.Sort.3", "dtstransform.sort.3">>,
    <<"DTSTransform.UnionAll.3", "dtstransform.unionall.3">>,
    <<"DbMaintenanceReindexTask", "dbmaintenancereindextask">>,
    <<"DbMaintenanceShrinkTask", "dbmaintenanceshrinktask">>,
    <<"DbMaintenanceTSQLExecuteTask", "dbmaintenancetsqlexecutetask">>,
    <<"DbMaintenanceUpdateStatisticsTask", "dbmaintenanceupdatestatisticstask">>,
    <<"Microsoft.", "microsoft.">>,
    <<"Microsoft.Aggregate", "microsoft.aggregate">>,
    <<"Microsoft.ConditionalSplit", "microsoft.conditionalsplit">>,
    <<"Microsoft.DataConvert", "microsoft.dataconvert">>,
    <<"Microsoft.DerivedColumn", "microsoft.derivedcolumn">>,
    <<"Microsoft.ExcelDestination", "microsoft.exceldestination">>,
    <<"Microsoft.ExcelSource", "microsoft.excelsource">>,
    <<"Microsoft.ExecutePackageTask", "microsoft.executepackagetask">>,
    <<"Microsoft.ExecuteProcess", "microsoft.executeprocess">>,
    <<"Microsoft.ExecuteSQLTask", "microsoft.executesqltask">>,
    <<"Microsoft.ExpressionTask", "microsoft.expressiontask">>,
    <<"Microsoft.FileSystemTask", "microsoft.filesystemtask">>,
    <<"Microsoft.FlatFileDestination", "microsoft.flatfiledestination">>,
    <<"Microsoft.FlatFileSource", "microsoft.flatfilesource">>,
    <<"Microsoft.Lookup", "microsoft.lookup">>,
    <<"Microsoft.ManagedComponentWrapper", "microsoft.managedcomponentwrapper">>,
    <<"Microsoft.Merge", "microsoft.merge">>,
    <<"Microsoft.MergeJoin", "microsoft.mergejoin">>,
    <<"Microsoft.Multicast", "microsoft.multicast">>,
    <<"Microsoft.OLEDBCommand", "microsoft.oledbcommand">>,
    <<"Microsoft.OLEDBDestination", "microsoft.oledbdestination">>,
    <<"Microsoft.OLEDBSource", "microsoft.oledbsource">>,
    <<"Microsoft.Package", "microsoft.package">>,
    <<"Microsoft.Pipeline", "microsoft.pipeline">>,
    <<"Microsoft.RecordsetDestination", "microsoft.recordsetdestination">>,
    <<"Microsoft.ScriptTask", "microsoft.scripttask">>,
    <<"Microsoft.SlowlyChangingDimension", "microsoft.slowlychangingdimension">>,
    <<"Microsoft.Sort", "microsoft.sort">>,
    <<"Microsoft.SqlServer.ExecProcTask", "microsoft.sqlserver.execproctask">>,
    <<"Microsoft.SqlServer.ExpressionTask", "microsoft.sqlserver.expressiontask">>,
    <<"Microsoft.SqlServer.FileSystemTask", "microsoft.sqlserver.filesystemtask">>,
    <<"Microsoft.SqlServer.SQLTask", "microsoft.sqlserver.sqltask">>,
    <<"Microsoft.SqlServer.ScriptTask", "microsoft.sqlserver.scripttask">>,
    <<"Microsoft.SqlServer.TransferDatabasesTask", "microsoft.sqlserver.transferdatabasestask">>,
    <<"Microsoft.TransferDatabaseTask", "microsoft.transferdatabasetask">>,
    <<"Microsoft.UnionAll", "microsoft.unionall">>,
    <<"SSIS.ExecutePackageTask", "ssis.executepackagetask">>,
    <<"SSIS.Package", "ssis.package">>,
    <<"SSIS.Pipeline", "ssis.pipeline">>,
    <<"componentClassID=", "componentclassid=">>,
    <<"{14D43A4F-D7BD-489D-829E-6DE35750CFE4}", "{14d43a4f-d7bd-489d-829e-6de35750cfe4}">>,
    <<"{14D43A4F-d7bd-489d-829E-6DE35750CFE4}", "{14d43a4f-d7bd-489d-829e-6de35750cfe4}">>,
    <<"{165A526D-D5DE-47FF-96A6-F8274C19826B}", "{165a526d-d5de-47ff-96a6-f8274c19826b}">>,
    <<"{165A526D-d5de-47ff-96A6-F8274C19826B}", "{165a526d-d5de-47ff-96a6-f8274c19826b}">>,
    <<"{25BBB0C5-369B-4303-B3DF-D0DC741DEE58}", "{25bbb0c5-369b-4303-b3df-d0dc741dee58}">>,
    <<"{25BBB0C5-369b-4303-B3DF-D0DC741DEE58}", "{25bbb0c5-369b-4303-b3df-d0dc741dee58}">>,
    <<"{36E0E750-2510-4776-AA6E-17EAE84FD63E}", "{36e0e750-2510-4776-aa6e-17eae84fd63e}">>,
    <<"{49928E82-9C4E-49F0-AABE-3812B82707EC}", "{49928e82-9c4e-49f0-aabe-3812b82707ec}">>,
    <<"{49928E82-9c4e-49f0-AABE-3812B82707EC}", "{49928e82-9c4e-49f0-aabe-3812b82707ec}">>,
    <<"{4ADA7EAA-136C-4215-8098-D7A7C27FC0D1}", "{4ada7eaa-136c-4215-8098-d7a7c27fc0d1}">>,
    <<"{4ADA7EAA-136c-4215-8098-D7A7C27FC0D1}", "{4ada7eaa-136c-4215-8098-d7a7c27fc0d1}">>,
    <<"{5918251B-2970-45A4-AB5F-01C3C588FE5A}", "{5918251b-2970-45a4-ab5f-01c3c588fe5a}">>,
    <<"{5918251B-2970-45a4-AB5F-01C3C588FE5A}", "{5918251b-2970-45a4-ab5f-01c3c588fe5a}">>,
    <<"{5B1A3FF5-D366-4D75-AD1F-F19A36FCBEDB}", "{5b1a3ff5-d366-4d75-ad1f-f19a36fcbedb}">>,
    <<"{5B1A3FF5-d366-4d75-AD1F-F19A36FCBEDB}", "{5b1a3ff5-d366-4d75-ad1f-f19a36fcbedb}">>,
    <<"{5B201335-B360-485C-BB93-75C34E09B3D3}", "{5b201335-b360-485c-bb93-75c34e09b3d3}">>,
    <<"{5B201335-b360-485c-BB93-75C34E09B3D3}", "{5b201335-b360-485c-bb93-75c34e09b3d3}">>,
    <<"{62B1106C-7DB8-4EC8-ADD6-4C664DFFC54A}", "{62b1106c-7db8-4ec8-add6-4c664dffc54a}">>,
    <<"{62B1106C-7db8-4ec8-ADD6-4C664DFFC54A}", "{62b1106c-7db8-4ec8-add6-4c664dffc54a}">>,
    <<"{671046B0-AA63-4C9F-90E4-C06E0B710CE3}", "{671046b0-aa63-4c9f-90e4-c06e0b710ce3}">>,
    <<"{671046B0-aa63-4c9f-90E4-C06E0B710CE3}", "{671046b0-aa63-4c9f-90e4-c06e0b710ce3}">>,
    <<"{7F88F654-4E20-4D14-84F4-AF9C925D3087}", "{7f88f654-4e20-4d14-84f4-af9c925d3087}">>,
    <<"{7F88F654-4e20-4d14-84F4-AF9C925D3087}", "{7f88f654-4e20-4d14-84f4-af9c925d3087}">>,
    <<"{874F7595-FB5F-40FF-96AF-FBFF8250E3EF}", "{874f7595-fb5f-40ff-96af-fbff8250e3ef}">>,
    <<"{874F7595-fb5f-40ff-96AF-FBFF8250E3EF}", "{874f7595-fb5f-40ff-96af-fbff8250e3ef}">>,
    <<"{8C084929-27D1-479F-9641-ABB7CDADF1AC}", "{8c084929-27d1-479f-9641-abb7cdadf1ac}">>,
    <<"{8C084929-27d1-479f-9641-ABB7CDADF1AC}", "{8c084929-27d1-479f-9641-abb7cdadf1ac}">>,
    <<"{8DA75FED-1B7C-407D-B2AD-2B24209CCCA4}", "{8da75fed-1b7c-407d-b2ad-2b24209ccca4}">>,
    <<"{8DA75FED-1b7c-407d-B2AD-2B24209CCCA4}", "{8da75fed-1b7c-407d-b2ad-2b24209ccca4}">>,
    <<"{93FFEC66-CBC8-4C7F-9C6A-CB1C17A7567D}", "{93ffec66-cbc8-4c7f-9c6a-cb1c17a7567d}">>,
    <<"{93FFEC66-cbc8-4c7f-9C6A-CB1C17A7567D}", "{93ffec66-cbc8-4c7f-9c6a-cb1c17a7567d}">>,
    <<"{98F16A65-E02F-4B0F-87D4-C217EA074619}", "{98f16a65-e02f-4b0f-87d4-c217ea074619}">>,
    <<"{98F16A65-e02f-4b0f-87D4-C217EA074619}", "{98f16a65-e02f-4b0f-87d4-c217ea074619}">>,
    <<"{B594E9A8-4351-4939-891C-CFE1AB93E925}", "{b594e9a8-4351-4939-891c-cfe1ab93e925}">>,
    <<"{BD06A22E-BC69-4AF7-A69B-C44C2EF684BB}", "{bd06a22e-bc69-4af7-a69b-c44c2ef684bb}">>,
    <<"{BD06A22E-bc69-4af7-A69B-C44C2EF684BB}", "{bd06a22e-bc69-4af7-a69b-c44c2ef684bb}">>,
    <<"{C457FD7E-CE98-4C4B-AEFE-F3AE0044F181}", "{c457fd7e-ce98-4c4b-aefe-f3ae0044f181}">>,
    <<"{C457FD7E-ce98-4c4b-AEFE-F3AE0044F181}", "{c457fd7e-ce98-4c4b-aefe-f3ae0044f181}">>,
    <<"{D23FD76B-F51D-420F-BBCB-19CBF6AC1AB4}", "{d23fd76b-f51d-420f-bbcb-19cbf6ac1ab4}">>,
    <<"{D23FD76B-f51d-420f-BBCB-19CBF6AC1AB4}", "{d23fd76b-f51d-420f-bbcb-19cbf6ac1ab4}">>,
    <<"{EC139FBC-694E-490B-8EA7-35690FB0F445}", "{ec139fbc-694e-490b-8ea7-35690fb0f445}">>,
    <<"{EC139FBC-694e-490b-8EA7-35690FB0F445}", "{ec139fbc-694e-490b-8ea7-35690fb0f445}">> }

LowerTable == [a \in {p[1] : p \in LowerPairs} |-> (CHOOSE p \in LowerPairs : p[1] = a)[2]]

(* The atoms whose text starts with "{". *)
BraceAtoms ==
  { "{14D43A4F-D7BD-489D-829E-6DE35750CFE4}",
    "{14D43A4F-d7bd-489d-829E-6DE35750CFE4}",
    "{14d43a4f-d7bd-489d-829e-6de35750cfe4}",
    "{165A526D-D5DE-47FF-96A6-F8274C19826B}",
    "{165A526D-d5de-47ff-96A6-F8274C19826B}",
    "{165a526d-d5de-47ff-96a6-f8274c19826b}",
    "{25BBB0C5-369B-4303-B3DF-D0DC741DEE58}",
    "{25BBB0C5-369b-4303-B3DF-D0DC741DEE58}",
    "{25bbb0c5-369b-4303-b3df-d0dc741dee58}",
    "{36E0E750-2510-4776-AA6E-17EAE84FD63E}",
    "{36e0e750-2510-4776-aa6e-17eae84fd63e}",
    "{49928E82-9C4E-49F0-AABE-3812B82707EC}",
    "{49928E82-9c4e-49f0-AABE-3812B82707EC}",
    "{49928e82-9c4e-49f0-aabe-3812b82707ec}",
    "{4ADA7EAA-136C-4215-8098-D7A7C27FC0D1}",
    "{4ADA7EAA-136c-4215-8098-D7A7C27FC0D1}",
    "{4ada7eaa-136c-4215-8098-d7a7c27fc0d1}",
    "{5918251B-2970-45A4-AB5F-01C3C588FE5A}",
    "{5918251B-2970-45a4-AB5F-01C3C588FE5A}",
    "{5918251b-2970-45a4-ab5f-01c3c588fe5a}",
    "{5B1A3FF5-D366-4D75-AD1F-F19A36FCBEDB}",
    "{5B1A3FF5-d366-4d75-AD1F-F19A36FCBEDB}",
    "{5B201335-B360-485C-BB93-75C34E09B3D3}",
    "{5B201335-b360-485c-BB93-75C34E09B3D3}",
    "{5b1a3ff5-d366-4d75-ad1f-f19a36fcbedb}",
    "{5b201335-b360-485c-bb93-75c34e09b3d3}",
    "{62B1106C-7DB8-4EC8-ADD6-4C664DFFC54A}",
    "{62B1106C-7db8-4ec8-ADD6-4C664DFFC54A}",
    "{62b1106c-7db8-4ec8-add6-4c664dffc54a}",
    "{671046B0-AA63-4C9F-90E4-C06E0B710CE3}",
    "{671046B0-aa63-4c9f-90E4-C06E0B710CE3}",
    "{671046b0-aa63-4c9f-90e4-c06e0b710ce3}",
    "{7F88F654-4E20-4D14-84F4-AF9C925D3087}",
    "{7F88F654-4e20-4d14-84F4-AF9C925D3087}",
    "{7f88f654-4e20-4d14-84f4-af9c925d3087}",
    "{874F7595-FB5F-40FF-96AF-FBFF8250E3EF}",
    "{874F7595-fb5f-40ff-96AF-FBFF8250E3EF}",
    "{874f7595-fb5f-40ff-96af-fbff8250e3ef}",
    "{8C084929-27D1-479F-9641-ABB7CDADF1AC}",
    "{8C084929-27d1-479f-9641-ABB7CDADF1AC}",
    "{8DA75FED-1B7C-407D-B2AD-2B24209CCCA4}",
    "{8DA75FED-1b7c-407d-B2AD-2B24209CCCA4}",
    "{8c084929-27d1-479f-9641-abb7cdadf1ac}",
    "{8da75fed-1b7c-407d-b2ad-2b24209ccca4}",
    "{93FFEC66-CBC8-4C7F-9C6A-CB1C17A7567D}",
    "{93FFEC66-cbc8-4c7f-9C6A-CB1C17A7567D}",
    "{93ffec66-cbc8-4c7f-9c6a-cb1c17a7567d}",
    "{98F16A65-E02F-4B0F-87D4-C217EA074619}",
    "{98F16A65-e02f-4b0f-87D4-C217EA074619}",
    "{98f16a65-e02f-4b0f-87d4-c217ea074619}",
    "{B594E9A8-4351-4939-891C-CFE1AB93E925}",
    "{BD06A22E-BC69-4AF7-A69B-C44C2EF684BB}",
    "{BD06A22E-bc69-4af7-A69B-C44C2EF684BB}",
    "{C457FD7E-CE98-4C4B-AEFE-F3AE0044F181}",
    "{C457FD7E-ce98-4c4b-AEFE-F3AE0044F181}",
    "{D23FD76B-F51D-420F-BBCB-19CBF6AC1AB4}",
    "{D23FD76B-f51d-420f-BBCB-19CBF6AC1AB4}",
    "{EC139FBC-694E-490B-8EA7-35690FB0F445}",
    "{EC139FBC-694e-490b-8EA7-35690FB0F445}",
    "{b594e9a8-4351-4939-891c-cfe1ab93e925}",
    "{bd06a22e-bc69-4af7-a69b-c44c2ef684bb}",
    "{c457fd7e-ce98-4c4b-aefe-f3ae0044f181}",
    "{d23fd76b-f51d-420f-bbcb-19cbf6ac1ab4}",
    "{ec139fbc-694e-490b-8ea7-35690fb0f445}" }

(* For each GUID of the tables, a mixed-case spelling of it (an input). *)
MixedCasePairs ==
  { <<"{14D43A4F-D7BD-489D-829E-6DE35750CFE4}", "{14D43A4F-d7bd-489d-829E-6DE35750CFE4}">>,
    <<"{165A526D-D5DE-47FF-96A6-F8274C19826B}", "{165A526D-d5de-47ff-96A6-F8274C19826B}">>,
    <<"{25BBB0C5-369B-4303-B3DF-D0DC741DEE58}", "{25BBB0C5-369b-4303-B3DF-D0DC741DEE58}">>,
    <<"{36E0E750-2510-4776-AA6E-17EAE84FD63E}", "{36E0E750-2510-4776-AA6E-17EAE84FD63E}">>,
    <<"{49928E82-9C4E-49F0-AABE-3812B82707EC}", "{49928E82-9c4e-49f0-AABE-3812B82707EC}">>,
    <<"{4ADA7EAA-136C-4215-8098-D7A7C27FC0D1}", "{4ADA7EAA-136c-4215-8098-D7A7C27FC0D1}">>,
    <<"{5918251B-2970-45A4-AB5F-01C3C588FE5A}", "{5918251B-2970-45a4-AB5F-01C3C588FE5A}">>,
    <<"{5B1A3FF5-D366-4D75-AD1F-F19A36FCBEDB}", "{5B1A3FF5-d366-4d75-AD1F-F19A36FCBEDB}">>,
    <<"{5B201335-B360-485C-BB93-75C34E09B3D3}", "{5B201335-b360-485c-BB93-75C34E09B3D3}">>,
    <<"{62B1106C-7DB8-4EC8-ADD6-4C664DFFC54A}", "{62B1106C-7db8-4ec8-ADD6-4C664DFFC54A}">>,
    <<"{671046B0-AA63-4C9F-90E4-C06E0B710CE3}", "{671046B0-aa63-4c9f-90E4-C06E0B710CE3}">>,
    <<"{7F88F654-4E20-4D14-84F4-AF9C925D3087}", "{7F88F654-4e20-4d14-84F4-AF9C925D3087}">>,
    <<"{874F7595-FB5F-40FF-96AF-FBFF8250E3EF}", "{874F7595-fb5f-40ff-96AF-FBFF8250E3EF}">>,
    <<"{8C084929-27D1-479F-9641-ABB7CDADF1AC}", "{8C084929-27d1-479f-9641-ABB7CDADF1AC}">>,
    <<"{8DA75FED-1B7C-407D-B2AD-2B24209CCCA4}", "{8DA75FED-1b7c-407d-B2AD-2B24209CCCA4}">>,
    <<"{93FFEC66-CBC8-4C7F-9C6A-CB1C17A7567D}", "{93FFEC66-cbc8-4c7f-9C6A-CB1C17A7567D}">>,
    <<"{98F16A65-E02F-4B0F-87D4-C217EA074619}", "{98F16A65-e02f-4b0f-87D4-C217EA074619}">>,
    <<"{B594E9A8-4351-4939-891C-CFE1AB93E925}", "{B594E9A8-4351-4939-891C-CFE1AB93E925}">>,
    <<"{BD06A22E-BC69-4AF7-A69B-C44C2EF684BB}", "{BD06A22E-bc69-4af7-A69B-C44C2EF684BB}">>,
    <<"{C457FD7E-CE98-4C4B-AEFE-F3AE0044F181}", "{C457FD7E-ce98-4c4b-AEFE-F3AE0044F181}">>,
    <<"{D23FD76B-F51D-420F-BBCB-19CBF6AC1AB4}", "{D23FD76B-f51d-420f-BBCB-19CBF6AC1AB4}">>,
    <<"{EC139FBC-694E-490B-8EA7-35690FB0F445}", "{EC139FBC-694e-490b-8EA7-35690FB0F445}">> }

MixedCase == [a \in {p[1] : p \in MixedCasePairs} |-> (CHOOSE p \in MixedCasePairs : p[1] = a)[2]]

(***************************************************************************)
(* Regular-expression matching, on atoms.                                  *)
(***************************************************************************)
Lower(a) == IF a \in DOMAIN LowerTable THEN LowerTable[a] ELSE a

\* Two atoms are the same text; under re.IGNORECASE, the same text up to case.
TokEq(a, b, ignorecase) == IF ignorecase THEN Lower(a) = Lower(b) ELSE a = b

\* v spells \.\d+ : a dot and at least one digit.
IsVersion(v) ==
  /\ Len(v) >= 2
  /\ v[1] = "."
  /\ \A k \in 2..Len(v) : v[k] \in DIGITS

RECURSIVE FullMatch(_, _, _)
\* The pattern p matches the whole of the quoted value v (which holds no quote).
FullMatch(p, v, ignorecase) ==
  IF p = <<>> THEN v = <<>>
  ELSE LET e == Head(p)
           Rest(k) == SubSeq(v, k + 1, Len(v))
       IN  CASE e.t = "lit" ->
                  /\ v # <<>>
                  /\ TokEq(Head(v), e.s, ignorecase)
                  /\ FullMatch(Tail(p), Tail(v), ignorecase)
             [] e.t = "any" ->
                  \E k \in 0..Len(v) : FullMatch(Tail(p), Rest(k), ignorecase)
             [] e.t = "optver" ->
                  \E k \in 0..Len(v) :
                     /\ k = 0 \/ IsVersion(SubSeq(v, 1, k))
                     /\ FullMatch(Tail(p), Rest(k), ignorecase)

\* The index of the first quote of s at or after i, 0 when there is none.
NextQuote(s, i) ==
  LET js == {j \in i..Len(s) : s[j] = Q}
  IN  IF js = {} THEN 0 ELSE CHOOSE j \in js : \A k \in js : j <= k

\* Where a match of  attribute"(pat)"  that starts at atom i of s ends, 0
\* when none starts there.
MatchEnd(s, i, attribute, pat, ignorecase) ==
  IF /\ i + 1 <= Len(s)
     /\ TokEq(s[i], attribute, ignorecase)
     /\ s[i + 1] = Q
  THEN LET j == NextQuote(s, i + 2)
       IN  IF j # 0 /\ FullMatch(pat, SubSeq(s, i + 2, j - 1), ignorecase)
           THEN j ELSE 0
  ELSE 0

\* (A variant that drops the closing quote.)
ReplaceMatchUnclosed(attribute, new) == <<attribute, Q>> \o new

\* What replace_match returns: the attribute as the code spells it, with
\* the new value.
ReplaceMatch(attribute, new) == <<attribute, Q>> \o new \o <<Q>>

RECURSIVE SubFrom(_, _, _, _, _)
\* re.sub from atom i on: the leftmost matches, none overlapping another,
\* each replaced and counted.
SubFrom(s, i, attribute, rule, ignorecase) ==
  IF i > Len(s) THEN [content |-> <<>>, count |-> 0]
  ELSE LET j == MatchEnd(s, i, attribute, rule.pat, ignorecase)
       IN  IF j # 0
           THEN LET r == SubFrom(s, j + 1, attribute, rule, ignorecase)
                IN  [content |-> ReplaceMatch(attribute, rule.new) \o r.content,
                     count |-> 1 + r.count]
           ELSE LET r == SubFrom(s, i + 1, attribute, rule, ignorecase)
                IN  [content |-> <<s[i]>> \o r.content, count |-> r.count]

ReSub(attribute, rule, xml, ignorecase) ==
  SubFrom(xml, 1, attribute, rule, ignorecase)

\* pattern.startswith(r'\{')
StartsWithBrace(pat) == Head(pat).t = "lit" /\ Head(pat).s \in BraceAtoms

EXEC_ATTRIBUTES == <<"DTS:CreationName=", "DTS:ExecutableType=">>
CLASSID_ATTRIBUTE == "componentClassID="

\* Whether simplify_executable_types passes re.IGNORECASE for a pattern.
ExecIgnoreCase(pat) == StartsWithBrace(pat)

\* One step of the two nested loops of simplify_executable_types: step k
\* is rule (k + 1) \div 2 with attribute 1 (k odd) or 2 (k even).
ExecStep(xml, k) ==
  LET rule == EXECUTABLE_TYPE_MAPPINGS[(k + 1) \div 2]
      attribute == EXEC_ATTRIBUTES[((k - 1) % 2) + 1]
  IN  ReSub(attribute, rule, xml, ExecIgnoreCase(rule.pat))

\* The content of b with the counts of a and b added.
Sum(a, b) == [content |-> b.content, count |-> a.count + b.count]

RECURSIVE ExecLoop(_, _, _)
\* Steps lo..hi after the steps before them gave a.
ExecThen(a, lo, hi) ==
  IF a.count < 0 THEN a ELSE Sum(a, ExecLoop(a.content, lo, hi))

\* Steps lo..hi of the loops, in order, on content; the count is the number
\* of calls of replace_match in them.  (The range is halved, and the first
\* half is evaluated before the second is started, to keep the evaluation
\* shallow; the steps run in the order of the code.)
ExecLoop(xml, lo, hi) ==
  IF lo > hi THEN [content |-> xml, count |-> 0]
  ELSE IF lo = hi THEN ExecStep(xml, lo)
  ELSE LET mid == (lo + hi) \div 2
       IN  ExecThen(ExecLoop(xml, lo, mid), mid + 1, hi)

\* (The parameter the source calls content is called xml here: content is
\* the variable that holds the files.)
simplify_executable_types(xml) ==
  ExecLoop(xml, 1, 2 * Len(EXECUTABLE_TYPE_MAPPINGS))

\* Whether upgrade_component_classids passes re.IGNORECASE for the rules of
\* COMPONENT_CLASSID_MAPPINGS.
StringIgnoreCase == FALSE

\* (A variant that matches GUIDs in the declared case only.)
GuidCaseSensitive == FALSE

\* ... and for the rules of GUID_COMPONENT_CLASSID_MAPPINGS.
GuidIgnoreCase == TRUE

RECURSIVE ClassidLoop(_, _, _, _, _)
\* Rules lo..hi of a table after the rules before them gave a.
ClassidThen(table, ignorecase, a, lo, hi) ==
  IF a.count < 0 THEN a
  ELSE Sum(a, ClassidLoop(table, ignorecase, a.content, lo, hi))

\* Rules lo..hi of one loop of upgrade_component_classids, in order.
ClassidLoop(table, ignorecase, xml, lo, hi) ==
  IF lo > hi THEN [content |-> xml, count |-> 0]
  ELSE IF lo = hi THEN ReSub(CLASSID_ATTRIBUTE, table[lo], xml, ignorecase)
  ELSE LET mid == (lo + hi) \div 2
       IN  ClassidThen(table, ignorecase,
                       ClassidLoop(table, ignorecase, xml, lo, mid), mid + 1, hi)

upgrade_component_classids(xml) ==
  ClassidThen(GUID_COMPONENT_CLASSID_MAPPINGS, GuidIgnoreCase,
              ClassidLoop(COMPONENT_CLASSID_MAPPINGS, StringIgnoreCase, xml,
                          1, Len(COMPONENT_CLASSID_MAPPINGS)),
              1, Len(GUID_COMPONENT_CLASSID_MAPPINGS))

(***************************************************************************)
(* The file system the tool is run on.                                     *)
(*     pkgs/a.dtsx  pkgs/b.dtsx  pkgs/notes.txt  pkgs/sub/c.dtsx           *)
(*     pkgs/empty/                                                         *)
(* and the paths a command line may name.                                  *)
(* The packages are the files of DOMAIN content: a model run starts with   *)
(* all three of them, or with pkgs/a.dtsx alone.                            *)
(***************************************************************************)
DtsxFiles == {"pkgs/a.dtsx", "pkgs/b.dtsx", "pkgs/sub/c.dtsx"}
OtherFiles == {"pkgs/notes.txt"}
Directories == {"pkgs", "pkgs/empty"}
Paths == {"pkgs", "pkgs/a.dtsx", "pkgs/notes.txt", "pkgs/empty", "nowhere"}

\* A file that may be missing: NoFile, or File(c) when it holds the text c.
NoFile == <<>>
File(c) == <<c>>
NoArgs == "no process"

\* Bounds of the model.
MaxRuns == 2
MaxFaults == 1
MaxAttrs == 2
MaxPasses == 2

\* An attribute assignment  name"value"  and one whose closing quote is
\* missing.
Attr(name, v) == <<name, Q>> \o v \o <<Q>>
Open(name, v) == <<name, Q>> \o v

\* The contents the packages of the walker start with: Scenario A with a
\* legacy component (Scenario B), and a package that is canonical already.
ScenarioA ==
  Attr("DTS:ExecutableType=", <<"SSIS.Pipeline", ".", "3">>)
    \o Attr("componentClassID=", <<"DTSTransform.Sort.3">>)
Canonical == Attr("DTS:CreationName=", <<"Microsoft.", "DbMaintenanceReindexTask">>)
WalkContents == {ScenarioA, Canonical}

VARIABLES
  content,      \* the text of each package file
  bak,          \* the text of each package's .bak file, or NoFile
  argv,         \* the parsed command line of the running process
  pc,           \* where the process is: shell, process_path, loop, summary, exited
  dtsx_files,   \* the files the loop of process_path has still to visit
  found,        \* the files process_path enumerated
  stats,        \* SSISPackageUpgrader.stats
  trace,        \* what the process did, in order: file accesses and printed lines
  exit_code,    \* the exit status of the process, -1 while there is none
  start,        \* history: the text of each package when the process started
  preMod,       \* history: the text each package had before it was last rewritten
  onlyBackupRuns, \* history: every process so far ran with --backup and no --dry-run
  runs,         \* the number of processes started
  faults,       \* the number of failed file operations so far
  text,         \* substitution engine: the content given to it
  pass,         \* substitution engine: how often the tool was applied to it
  result        \* substitution engine: the outcome of the latest application

wvars == <<content, bak, argv, pc, dtsx_files, found, stats, trace, exit_code,
           start, preMod, onlyBackupRuns, runs, faults>>
evars == <<text, pass, result>>
vars == <<content, bak, argv, pc, dtsx_files, found, stats, trace, exit_code,
          start, preMod, onlyBackupRuns, runs, faults, text, pass, result>>

Event(op, f) == [op |-> op, f |-> f]

ZeroStats ==
  [files_processed |-> 0, files_modified |-> 0, executable_replacements |-> 0,
   classid_replacements |-> 0, errors |-> 0]

\* The part of the state the handling of one file reads and writes.
World ==
  [content |-> content, bak |-> bak, stats |-> stats, trace |-> trace,
   faults |-> faults, preMod |-> preMod]

Log(w, op, f) == [w EXCEPT !.trace = Append(@, Event(op, f))]

\* Whether the environment may still make a file operation fail.
MayFail(w) == w.faults < MaxFaults

\* What create_backup returns, read off the world it left.
BackupCreated(w) == w.trace[Len(w.trace)].op = "backup_ok"

(***************************************************************************)
(* create_backup: shutil.copy2 to <name>.bak.  The worlds it may leave: the *)
(* copy made or, when it fails, the .bak as it was or (it failed after the *)
(* .bak was opened) empty.                                                 *)
(***************************************************************************)
create_backup(w, f) ==
  {[Log(w, "backup_ok", f) EXCEPT !.bak[f] = File(w.content[f])]}
  \cup (IF MayFail(w)
        THEN {[Log(w, "backup_fail", f) EXCEPT !.faults = @ + 1],
              [Log(w, "backup_fail", f) EXCEPT !.faults = @ + 1, !.bak[f] = File(<<>>)]}
        ELSE {})

\* if total_replacements == 0
NoUpdatesNeeded(total_replacements) == total_replacements = 0

\* (A variant that writes whenever something was counted.)
AlwaysDiffers(updated_content, original_content) == TRUE

\* if updated_content != original_content
ContentDiffers(updated_content, original_content) ==
  updated_content # original_content

\* The except clause of upgrade_package: the error is counted.
CountError(st) == [st EXCEPT !.errors = @ + 1]

\* What a category that is switched off does to the content.
NotRun(given) == [content |-> given, count |-> 0]

\* Lines 270-288 of upgrade_package: what it does with the substituted
\* content; w2 is the world once the file is read and the counts are added.
Persist(w2, f, args, original_content, updated_content, total_replacements) ==
  IF NoUpdatesNeeded(total_replacements) THEN {Log(w2, "no_updates", f)}
  ELSE IF args.dry_run THEN {Log(w2, "would_change", f)}
  ELSE IF ContentDiffers(updated_content, original_content)
  THEN {[Log(w2, "write", f) EXCEPT
           !.content[f] = updated_content,
           !.preMod[f] = File(original_content),
           !.stats.files_modified = @ + 1]}
       \cup (IF MayFail(w2)
             THEN {[Log(w2, "write_fail", f) EXCEPT
                      !.stats = CountError(@), !.faults = @ + 1],
                   [Log(w2, "write_fail", f) EXCEPT
                      !.stats = CountError(@), !.faults = @ + 1,
                      !.content[f] = <<>>]}
             ELSE {})
  ELSE {Log(w2, "no_changes", f)}

\* Lines 262-268: the component class IDs, unless executable_only; e is
\* what the executable types gave.
ClassidPart(w1, f, args, original_content, e, c) ==
  Persist([Log(w1, "read", f) EXCEPT
             !.stats.executable_replacements = @ + e.count,
             !.stats.classid_replacements = @ + c.count],
          f, args, original_content, c.content, e.count + c.count)

\* Lines 254-260: the executable types, unless classid_only.
ExecutablePart(w1, f, args, original_content, e) ==
  ClassidPart(w1, f, args, original_content, e,
              IF ~args.executable_only
              THEN upgrade_component_classids(e.content)
              ELSE NotRun(e.content))

(***************************************************************************)
(* upgrade_package: the worlds it may leave.  A failed read changes        *)
(* nothing; a failed write leaves the file as it was (it could not be      *)
(* opened) or empty (it was opened, which truncates it, and the write      *)
(* failed).                                                                *)
(***************************************************************************)
Entered(w, f) == [Log(w, "process", f) EXCEPT !.stats.files_processed = @ + 1]

upgrade_package(w, f, args) ==
  (IF MayFail(w)
   THEN {[Log(Entered(w, f), "read_fail", f) EXCEPT
            !.stats = CountError(@), !.faults = @ + 1]}
   ELSE {})
  \cup ExecutablePart(Entered(w, f), f, args, w.content[f],
                      IF ~args.classid_only
                      THEN simplify_executable_types(w.content[f])
                      ELSE NotRun(w.content[f]))

\* (A variant that forgets the dry run.)
BackupRequested(args) == args.backup

\* if backup and not dry_run
BackupWanted(args) == args.backup /\ ~args.dry_run

\* (A variant that goes on without the backup.)
NeverSkipFile(created) == FALSE

\* if not self.create_backup(...): return / continue
SkipFile(created) == ~created

\* What process_path does with one file, the body of its loop and of its
\* single-file branch: the worlds it may leave.
HandleFile(w, f, args) ==
  IF BackupWanted(args)
  THEN UNION {IF SkipFile(BackupCreated(w1)) THEN {w1} ELSE upgrade_package(w1, f, args) :
              w1 \in create_backup(w, f)}
  ELSE upgrade_package(w, f, args)

\* path.exists(), path.is_file(), path.is_dir()
Exists(path) == path \in DOMAIN content \cup OtherFiles \cup Directories
IsFile(path) == path \in DOMAIN content \cup OtherFiles
IsDir(path) == path \in Directories

\* path.suffix
Suffix(path) == IF path \in DtsxFiles THEN ".dtsx" ELSE ".txt"

\* path.suffix.lower() == '.dtsx'
IsDtsx(path) == Lower(Suffix(path)) = ".dtsx"

\* The sequences that list each element of the set S once.
Orderings(S) ==
  {q \in [1..Cardinality(S) -> S] : \A i, j \in DOMAIN q : q[i] = q[j] => i = j}

\* (A variant that never descends into subdirectories.)
GlobChildren(path, recursive) ==
  Orderings(IF path = "pkgs"
            THEN DOMAIN content \cap {"pkgs/a.dtsx", "pkgs/b.dtsx"}
            ELSE {})

\* list(path.glob('**/*.dtsx' if recursive else '*.dtsx')): the files, in
\* an order the file system chooses.
Glob(path, recursive) ==
  Orderings(CASE path = "pkgs" /\ recursive -> DOMAIN content
              [] path = "pkgs" /\ ~recursive ->
                   DOMAIN content \cap {"pkgs/a.dtsx", "pkgs/b.dtsx"}
              [] OTHER -> {})

Args ==
  [path : Paths, backup : BOOLEAN, dry_run : BOOLEAN, recursive : BOOLEAN,
   executable_only : BOOLEAN, classid_only : BOOLEAN]

\* (A variant without the validation.)
NoConflict(args) == FALSE

\* if args.executable_only and args.classid_only
ConflictingOptions(args) == args.executable_only /\ args.classid_only

Adopt(w) ==
  /\ content' = w.content
  /\ bak' = w.bak
  /\ stats' = w.stats
  /\ trace' = w.trace
  /\ faults' = w.faults
  /\ preMod' = w.preMod

(***************************************************************************)
(* main(), up to the call of process_path: a process is started with some  *)
(* command line, rejects conflicting options, then a path that does not    *)
(* exist, and otherwise constructs the upgrader.                           *)
(***************************************************************************)
Main ==
  /\ pc = "shell"
  /\ \E args \in Args :
       /\ argv' = args
       /\ onlyBackupRuns' = (onlyBackupRuns /\ args.backup /\ ~args.dry_run)
       /\ IF ConflictingOptions(args)
          THEN /\ trace' = <<Event("error_conflict", args.path)>>
               /\ exit_code' = 1
               /\ pc' = "exited"
          ELSE IF ~Exists(args.path)
          THEN /\ trace' = <<Event("exists", args.path),
                             Event("error_not_found", args.path)>>
               /\ exit_code' = 1
               /\ pc' = "exited"
          ELSE /\ trace' = <<Event("exists", args.path)>>
               /\ exit_code' = -1
               /\ pc' = "process_path"
  /\ runs' = runs + 1
  /\ stats' = ZeroStats
  /\ start' = content
  /\ dtsx_files' = <<>>
  /\ found' = <<>>
  /\ UNCHANGED <<content, bak, preMod, faults>>
  /\ UNCHANGED evars

\* process_path on a file with the .dtsx suffix.
ProcessFile ==
  /\ pc = "process_path"
  /\ IsFile(argv.path) /\ IsDtsx(argv.path)
  /\ \E w \in HandleFile(World, argv.path, argv) : Adopt(w)
  /\ found' = <<argv.path>>
  /\ pc' = "summary"
  /\ UNCHANGED <<argv, dtsx_files, exit_code, start, onlyBackupRuns, runs>>
  /\ UNCHANGED evars

\* process_path on a file with another suffix.
SkipNonDtsx ==
  /\ pc = "process_path"
  /\ IsFile(argv.path) /\ ~IsDtsx(argv.path)
  /\ trace' = Append(trace, Event("skip_notice", argv.path))
  /\ pc' = "summary"
  /\ UNCHANGED <<content, bak, argv, dtsx_files, found, stats, exit_code, start,
                 preMod, onlyBackupRuns, runs, faults>>
  /\ UNCHANGED evars

\* process_path on a directory, up to its loop.
EnumerateDir ==
  /\ pc = "process_path"
  /\ IsDir(argv.path)
  /\ \E files \in Glob(argv.path, argv.recursive) :
       /\ found' = files
       /\ dtsx_files' = files
       /\ IF files = <<>>
          THEN /\ trace' = Append(trace, Event("none_found", argv.path))
               /\ pc' = "summary"
          ELSE /\ trace' = Append(trace, Event("found", argv.path))
               /\ pc' = "loop"
  /\ UNCHANGED <<content, bak, argv, stats, exit_code, start, preMod,
                 onlyBackupRuns, runs, faults>>
  /\ UNCHANGED evars

\* What upgrade_package returned, read off the world it left (TRUE as well
\* when the file was skipped for want of a backup).
Returned(w) == w.trace[Len(w.trace)].op \notin {"read_fail", "write_fail"}

\* (A variant that gives up at the first file that fails.)
RemainingUnlessFailed(files, returned) ==
  IF returned THEN Tail(files) ELSE <<>>

\* The files the loop goes on with after it handled the first of them: the
\* value upgrade_package returned is not looked at.
Remaining(files, returned) == Tail(files)

\* One turn of the loop of process_path.
LoopStep ==
  /\ pc = "loop"
  /\ dtsx_files # <<>>
  /\ \E w \in HandleFile(World, Head(dtsx_files), argv) :
       /\ Adopt(w)
       /\ dtsx_files' = Remaining(dtsx_files, Returned(w))
       /\ pc' = IF Remaining(dtsx_files, Returned(w)) = <<>> THEN "summary" ELSE "loop"
  /\ UNCHANGED <<argv, found, exit_code, start, onlyBackupRuns, runs>>
  /\ UNCHANGED evars

\* print_summary, and the end of main: exit status 0.
PrintSummary ==
  /\ pc = "summary"
  /\ trace' = Append(trace, Event("summary", argv.path))
  /\ exit_code' = 0
  /\ pc' = "exited"
  /\ UNCHANGED <<content, bak, argv, dtsx_files, found, stats, start, preMod,
                 onlyBackupRuns, runs, faults>>
  /\ UNCHANGED evars

\* The state before the tool is run, with the packages S, each holding a
\* text of C.
InitWith(S, C) ==
  /\ content \in [S -> C]
  /\ bak = [f \in S |-> NoFile]
  /\ argv = NoArgs
  /\ pc = "shell"
  /\ dtsx_files = <<>>
  /\ found = <<>>
  /\ stats = ZeroStats
  /\ trace = <<>>
  /\ exit_code = -1
  /\ start = content
  /\ preMod = [f \in S |-> NoFile]
  /\ onlyBackupRuns = TRUE
  /\ runs = 0
  /\ faults = 0

NoResult == [before |-> <<>>, mid |-> <<>>, content |-> <<>>, exec |-> 0, classid |-> 0]

Init ==
  /\ InitWith(DtsxFiles, WalkContents)
  /\ text = <<>>
  /\ pass = 0
  /\ result = NoResult

\* The process is gone, and the tool can be run again on the file system
\* it left.
Rerun ==
  /\ pc = "exited"
  /\ runs < MaxRuns
  /\ pc' = "shell"
  /\ argv' = NoArgs
  /\ stats' = ZeroStats
  /\ trace' = <<>>
  /\ exit_code' = -1
  /\ dtsx_files' = <<>>
  /\ found' = <<>>
  /\ start' = content
  /\ UNCHANGED <<content, bak, preMod, onlyBackupRuns, runs, faults>>
  /\ UNCHANGED evars

Next ==
  \/ Main
  \/ ProcessFile
  \/ SkipNonDtsx
  \/ EnumerateDir
  \/ LoopStep
  \/ PrintSummary

Spec == Init /\ [][Next]_vars

(***************************************************************************)
(* The substitution engine on its own: a content is given to the tool,     *)
(* both categories enabled, and what it returns is given to it again.      *)
(***************************************************************************)
AttrNames == {"DTS:CreationName=", "DTS:ExecutableType=", "componentClassID="}

AllRules ==
  {EXECUTABLE_TYPE_MAPPINGS[k] : k \in DOMAIN EXECUTABLE_TYPE_MAPPINGS}
  \cup {COMPONENT_CLASSID_MAPPINGS[k] : k \in DOMAIN COMPONENT_CLASSID_MAPPINGS}
  \cup {GUID_COMPONENT_CLASSID_MAPPINGS[k] : k \in DOMAIN GUID_COMPONENT_CLASSID_MAPPINGS}

\* The literal atom of a pattern.
KeyOf(pat) == (CHOOSE e \in {pat[k] : k \in DOMAIN pat} : e.t = "lit").s

\* Values to try a rule on: its identifier as declared, in lower case, in
\* mixed case (a GUID), with a version, and inside a qualified name.
Spellings(rule) ==
  LET a == KeyOf(rule.pat)
  IN  {<<a>>, <<Lower(a)>>, <<a, ".", "3">>, <<"x", a, ", v">>}
      \cup (IF a \in DOMAIN MixedCase THEN {<<MixedCase[a]>>} ELSE {})

ProbeValues == UNION {Spellings(rule) \cup {rule.new} : rule \in AllRules}

\* One attribute, spelt as the code spells it or in lower case.
ProbeContents ==
  {Attr(name, v) : name \in AttrNames \cup {Lower(CLASSID_ATTRIBUTE)}, v \in ProbeValues}

\* Pieces of text that are put together: attributes with legacy and with
\* canonical values, attributes whose closing quote is missing (the next
\* quote of the text then ends them), a quote and filler.
Pieces ==
  { Attr("DTS:CreationName=", <<"SSIS.Pipeline", ".", "3">>),
    Attr("DTS:ExecutableType=", <<MixedCase["{5918251B-2970-45A4-AB5F-01C3C588FE5A}"]>>),
    Attr("DTS:CreationName=", <<"x", "Microsoft.SqlServer.SQLTask", ", v">>),
    Attr("DTS:ExecutableType=", <<"Microsoft.", "DbMaintenanceReindexTask">>),
    Attr("DTS:CreationName=", <<"Microsoft.Pipeline">>),
    Attr("componentClassID=", <<"DTSTransform.Sort.3">>),
    Attr("componentClassID=", <<MixedCase["{5918251B-2970-45A4-AB5F-01C3C588FE5A}"]>>),
    Attr("componentclassid=", <<"{5B201335-b360-485c-BB93-75C34E09B3D3}">>),
    Open("DTS:ExecutableType=", <<"x", "DbMaintenanceShrinkTask">>),
    Open("DTS:CreationName=", <<"Microsoft.SqlServer.ScriptTask">>),
    Open("componentClassID=", <<"DTSTransform.Sort.3">>),
    <<Q>>,
    <<"x">> }

RECURSIVE Joined(_)
\* The texts made of at most n pieces.
Joined(n) ==
  IF n = 0 THEN {<<>>}
  ELSE Joined(n - 1) \cup {c \o p : c \in Joined(n - 1), p \in Pieces}

EngineContents == ProbeContents \cup Joined(MaxAttrs)

InitEngine ==
  /\ InitWith({}, WalkContents)
  /\ text \in EngineContents
  /\ pass = 0
  /\ result = NoResult

\* What one application of the tool to a content returns: the content
\* after the executable types (mid) and after the component class IDs, and
\* the two counts.
Applied(before) ==
  LET e == simplify_executable_types(before)
      c == upgrade_component_classids(e.content)
  IN  [before |-> before, mid |-> e.content, content |-> c.content,
       exec |-> e.count, classid |-> c.count]

ApplyTool ==
  /\ pass < MaxPasses
  /\ result' = Applied(IF pass = 0 THEN text ELSE result.content)
  /\ pass' = pass + 1
  /\ UNCHANGED text
  /\ UNCHANGED wvars

NextEngine == ApplyTool

SpecEngine == InitEngine /\ [][NextEngine]_vars

\* Runs in succession, on a directory with one package.
InitRerun ==
  /\ InitWith({"pkgs/a.dtsx"}, WalkContents)
  /\ text = <<>>
  /\ pass = 0
  /\ result = NoResult

NextRerun == Next \/ Rerun

SpecRerun == InitRerun /\ [][NextRerun]_vars

(***************************************************************************)
(* Properties.  What the process did is read off its trace.                *)
(***************************************************************************)
Did(op, f) == \E i \in DOMAIN trace : trace[i] = Event(op, f)
Positions(op) == {i \in DOMAIN trace : trace[i].op = op}
Started == pc # "shell"
Finished == pc = "exited"
PassedPreflight == Started /\ ~(argv.executable_only /\ argv.classid_only)
                           /\ Positions("error_not_found") = {}
WithBackup == Started /\ argv.backup /\ ~argv.dry_run

\* What the enabled categories of a command line make of a text, and how
\* many replacements they count in it.
UpgradedBy(c, executable_only, classid_only) ==
  LET e == IF classid_only THEN NotRun(c) ELSE simplify_executable_types(c)
      k == IF executable_only THEN NotRun(e.content)
           ELSE upgrade_component_classids(e.content)
  IN  [content |-> k.content, count |-> e.count + k.count]

\* The same, tabulated for the contents the packages start with.
UpgradedTable ==
  {<<c, executable_only, classid_only, UpgradedBy(c, executable_only, classid_only)>> :
     c \in WalkContents, executable_only \in BOOLEAN, classid_only \in BOOLEAN}

Upgraded(c, args) ==
  (CHOOSE row \in UpgradedTable :
     /\ row[1] = c
     /\ row[2] = args.executable_only
     /\ row[3] = args.classid_only)[4]

(***************************************************************************)
(* C1: applying the tool twice to any content gives the same content as    *)
(* applying it once: the second application, given what the first          *)
(* returned, returns it unchanged (both categories).                       *)
(***************************************************************************)
C1_Idempotent == pass >= 2 => result.content = result.before

\* A second application to a content the first one rewrote in both
\* categories.
C1_Witness ==
  /\ pass = 2
  /\ result.content = result.before
  /\ text # result.before
  /\ \E i, j \in DOMAIN text : text[i] = "SSIS.Pipeline" /\ text[j] = "DTSTransform.Sort.3"
  /\ \E i, j \in DOMAIN result.content :
       result.content[i] = "Microsoft.Pipeline" /\ result.content[j] = "Microsoft.Sort"

(***************************************************************************)
(* C7: a replacement count that is not zero never goes with a content the  *)
(* substitution left as it was, in either category (so that the branch     *)
(* 'No changes made' could not be taken).                                  *)
(***************************************************************************)
C7_CountMeansChange ==
  pass >= 1 =>
    /\ result.exec > 0 => result.mid # result.before
    /\ result.classid > 0 => result.content # result.mid

\* The rules that apply to an attribute, and the spellings of a GUID.
IsGuidRule(rule) == KeyOf(rule.pat) \in BraceAtoms

RulesFor(name) ==
  IF name = CLASSID_ATTRIBUTE
  THEN {COMPONENT_CLASSID_MAPPINGS[k] : k \in DOMAIN COMPONENT_CLASSID_MAPPINGS}
       \cup {GUID_COMPONENT_CLASSID_MAPPINGS[k] : k \in DOMAIN GUID_COMPONENT_CLASSID_MAPPINGS}
  ELSE {EXECUTABLE_TYPE_MAPPINGS[k] : k \in DOMAIN EXECUTABLE_TYPE_MAPPINGS}

CaseVariants(a) == {a, Lower(a), MixedCase[a]}

(***************************************************************************)
(* C8: a GUID rule rewrites its GUID in the declared, the lower and a      *)
(* mixed case to the same canonical name and counts it once; a rule that   *)
(* names a string leaves the lower-case spelling of its name alone.        *)
(***************************************************************************)
C8_GuidCaseInsensitive ==
  pass = 1 =>
    \A name \in AttrNames : \A rule \in RulesFor(name) :
      IF IsGuidRule(rule)
      THEN \A g \in CaseVariants(KeyOf(rule.pat)) :
             text = Attr(name, <<g>>) =>
               /\ result.content = Attr(name, rule.new)
               /\ result.exec + result.classid = 1
      ELSE text = Attr(name, <<Lower(KeyOf(rule.pat))>>) =>
             /\ result.content = text
             /\ result.exec + result.classid = 0

\* Scenario C: a mixed-case GUID becomes Microsoft.Aggregate.
C8_Witness ==
  /\ pass = 1
  /\ text = Attr("componentClassID=", <<"{5B201335-b360-485c-BB93-75C34E09B3D3}">>)
  /\ result.content = Attr("componentClassID=", <<"Microsoft.Aggregate">>)
  /\ result.classid = 1

(***************************************************************************)
(* C2: a file is written only if the substituted text differs from the     *)
(* text read; a file in which nothing is counted is not written and stays  *)
(* as it was; files_modified counts the files written, and the content of  *)
(* each of them changed.                                                   *)
(***************************************************************************)
C2_WriteOnlyIfChanged ==
  Started =>
    /\ \A f \in DOMAIN content :
         /\ Did("write", f) \/ Did("write_fail", f) =>
              Upgraded(start[f], argv).content # start[f]
         /\ Upgraded(start[f], argv).count = 0 =>
              /\ ~Did("write", f) /\ ~Did("write_fail", f)
              /\ content[f] = start[f]
         /\ Did("write", f) => content[f] # start[f]
    /\ stats.files_modified = Cardinality({f \in DOMAIN content : Did("write", f)})
    /\ Cardinality(Positions("write")) = stats.files_modified

\* One file rewritten, another with a count but no difference left alone.
C2_Witness ==
  /\ Finished
  /\ stats.files_modified = 1
  /\ \E f, g \in DOMAIN content :
       /\ Did("write", f) /\ content[f] # start[f]
       /\ Did("no_changes", g) /\ content[g] = start[g]

(***************************************************************************)
(* C3: a dry run changes no file, makes no .bak (backup requested or not)  *)
(* and leaves files_modified at 0.                                         *)
(***************************************************************************)
C3_DryRunChangesNothing ==
  Started /\ argv.dry_run =>
    /\ content = start
    /\ \A f \in DOMAIN bak : bak[f] = NoFile
    /\ Positions("backup_ok") \cup Positions("backup_fail") = {}
    /\ Positions("write") \cup Positions("write_fail") = {}
    /\ stats.files_modified = 0

\* A finished dry run with --backup that found something to change.
C3_Witness ==
  /\ Finished
  /\ argv.dry_run /\ argv.backup
  /\ \E f \in DOMAIN content : Did("would_change", f)
  /\ stats.executable_replacements > 0

(***************************************************************************)
(* C4: with backup on and no dry run, a file is processed (read, written)  *)
(* only after its backup was made in the same run; a file whose backup     *)
(* failed is not processed, and the files after it are still visited.      *)
(***************************************************************************)
C4_BackupBeforeProcessing ==
  WithBackup =>
    /\ \A i \in DOMAIN trace :
         trace[i].op \in {"process", "read", "read_fail", "write", "write_fail"} =>
           \E j \in 1..(i - 1) : trace[j] = Event("backup_ok", trace[i].f)
    /\ \A i \in Positions("backup_ok") : bak[trace[i].f] = File(start[trace[i].f])
    /\ \A i \in Positions("backup_fail") :
         /\ ~Did("process", trace[i].f)
         /\ content[trace[i].f] = start[trace[i].f]
    /\ Finished /\ PassedPreflight =>
         \A k \in DOMAIN found : Did("backup_ok", found[k]) \/ Did("backup_fail", found[k])

\* A backup failed, and a file visited after it was backed up and processed.
C4_Witness ==
  /\ WithBackup /\ Finished
  /\ \E i \in Positions("backup_fail") : \E j \in Positions("process") :
       /\ i < j
       /\ trace[i].f # trace[j].f
       /\ ~Did("process", trace[i].f)

(***************************************************************************)
(* C5: with both --executable-only and --classid-only the process exits    *)
(* with a status that is not zero and has touched nothing: no check that   *)
(* the path exists, no backup, no read, no write.                          *)
(***************************************************************************)
C5_ConflictExitsFirst ==
  Started /\ argv.executable_only /\ argv.classid_only =>
    /\ Finished
    /\ exit_code # 0
    /\ trace = <<Event("error_conflict", argv.path)>>
    /\ content = start
    /\ \A f \in DOMAIN bak : bak[f] = NoFile

\* Both flags, on a directory that holds packages, with --backup.
C5_Witness ==
  /\ Finished
  /\ argv.executable_only /\ argv.classid_only
  /\ argv.path = "pkgs" /\ argv.backup /\ ~argv.dry_run
  /\ exit_code = 1

\* The files the run failed on, those it processed, in order, and those
\* it had to process.
Failed(f) == Did("read_fail", f) \/ Did("write_fail", f)
ProcessedFiles ==
  LET ps == SelectSeq(trace, LAMBDA e : e.op = "process")
  IN  [i \in DOMAIN ps |-> ps[i].f]
ExpectedFiles == SelectSeq(found, LAMBDA f : ~Did("backup_fail", f))

(***************************************************************************)
(* C6: a run that passed the checks of main ends with the summary and      *)
(* status 0 whatever failed; errors counts the files whose read or write   *)
(* failed, one each; and every enumerated file whose backup did not fail   *)
(* was processed, in the order of the enumeration.                         *)
(***************************************************************************)
C6_ErrorsDoNotAbort ==
  /\ PassedPreflight =>
       /\ stats.errors = Cardinality({f \in DOMAIN content : Failed(f)})
       /\ stats.errors = Cardinality(Positions("read_fail") \cup Positions("write_fail"))
       /\ pc \in {"process_path", "loop", "summary", "exited"}
  /\ PassedPreflight /\ Finished =>
       /\ exit_code = 0
       /\ trace[Len(trace)].op = "summary"
       /\ ProcessedFiles = ExpectedFiles
       /\ stats.files_processed = Len(ProcessedFiles)

\* The first of three files failed, the other two were processed, the
\* last of them rewritten.
C6_Witness ==
  /\ Finished /\ PassedPreflight
  /\ Len(found) = 3
  /\ Did("read_fail", found[1])
  /\ Did("read", found[2])
  /\ Did("write", found[3])
  /\ stats.errors = 1 /\ stats.files_processed = 3
  /\ exit_code = 0

(***************************************************************************)
(* C9: after runs that all had backup on and no dry run, a .bak holds the   *)
(* content its file had before the most recent run that modified it (no    *)
(* file operation having failed).                                          *)
(***************************************************************************)
C9_BackupIsPreModification ==
  Finished /\ onlyBackupRuns /\ faults = 0 =>
    \A f \in DOMAIN content :
      bak[f] # NoFile /\ preMod[f] # NoFile => bak[f] = preMod[f]

\* The packages a directory holds, below it as well when recursive, and
\* the other files in it.
Held(path, recursive) ==
  {f \in DOMAIN content :
     \/ path = "pkgs" /\ f \in {"pkgs/a.dtsx", "pkgs/b.dtsx"}
     \/ path = "pkgs" /\ recursive /\ f = "pkgs/sub/c.dtsx"}
OthersIn(path) == IF path = "pkgs" THEN OtherFiles ELSE {}
DirectoryRun == Finished /\ PassedPreflight /\ WithBackup /\ argv.path \in Directories

(***************************************************************************)
(* C10, as stated: a run on a directory with backup on makes a backup of   *)
(* each of the N packages the directory holds, prints a notice for each    *)
(* other file in it, and processes N files (no file operation failing).    *)
(***************************************************************************)
C10_BackupsAndNotices ==
  DirectoryRun /\ faults = 0 =>
    LET N == Cardinality(Held(argv.path, argv.recursive))
    IN  /\ Cardinality({f \in DOMAIN bak : bak[f] # NoFile}) = N
        /\ stats.files_processed = N
        /\ \A g \in OthersIn(argv.path) : Did("skip_notice", g)

(***************************************************************************)
(* C10, amended: the run makes as many backups as it processes files, N of *)
(* each when no backup fails; the other files of the directory are not     *)
(* enumerated, and no notice is printed for them.                          *)
(***************************************************************************)
C10_BackupsNoNotices ==
  DirectoryRun =>
    LET N == Cardinality(Held(argv.path, argv.recursive))
    IN  /\ Cardinality(Positions("backup_ok")) = stats.files_processed
        /\ stats.files_processed <= N
        /\ Len(found) = N
        /\ Positions("backup_fail") = {} =>
             /\ stats.files_processed = N
             /\ Cardinality({f \in DOMAIN bak : bak[f] # NoFile}) = N
             /\ \A f \in Held(argv.path, argv.recursive) : bak[f] = File(start[f])
        /\ Positions("skip_notice") = {}
        /\ \A i \in DOMAIN trace : trace[i].f \notin OtherFiles

\* A recursive run on pkgs: three backups, three files processed, and
\* nothing said about notes.txt.
C10_Witness ==
  /\ DirectoryRun
  /\ argv.path = "pkgs" /\ argv.recursive
  /\ stats.files_processed = 3
  /\ \A f \in DtsxFiles : bak[f] = File(start[f])
  /\ ~Did("skip_notice", "pkgs/notes.txt")

=============================================================================
